---- MODULE Spec2Model ----
(***************************************************************************)
(* Retrieval pipeline of AzureAI-Search-OpenAI-Lab (CodeSamples):          *)
(*   - PromptFlows/extract_search_query.py : conversational reformulation  *)
(*   - generate_embeddings.py, vector_search_client.py : embedding adapter *)
(*   - vector_search_client.py : vector / hybrid / semantic search         *)
(*                                                                         *)
(* Python strings are sequences of one-character strings, so that split(), *)
(* lower(), strip(), slicing and the `in` substring test are computed.     *)
(* An optional value (None or a string) is a record [isNone, chars].       *)
(***************************************************************************)
EXTENDS Integers, Sequences, FiniteSets, TLC

\* Reformulator: the arguments, the return value, the position of the call.
VARIABLES user_query, chat_history, search_query, rpc

\* Embedding adapter: which of the two functions runs, its text argument,
\* the position of the call, the requests the embedding provider received,
\* the provider's reply, what was printed, and the returned vector.
VARIABLES adapter, text, epc, provider_calls, provider_reply, stdout, embedding

\* Search client: the method called and its arguments, the position of the
\* call, the requests the index received, the index's reply, the return value.
VARIABLES method, query, top, vector_field, semantic_config,
          spc, index_calls, index_reply, results

\* Web handler search(): the JSON body of the request, the position of the
\* handler, the response it returns.
VARIABLES data, hpc, response

\* upload_documents: the loaded documents, the position of the script, the
\* loop variable i, the records the index holds, the index_documents calls,
\* the replies to them, and what was printed.
VARIABLES documents, upc, batch_i, index, upload_calls, upload_replies, upload_log

\* process_documents: the loaded documents (with the vectors added so far),
\* the position of the script, the loop variable i, how the embedding
\* provider behaves during the run, and the sequence of what happened.
VARIABLES pdocs, ppc, doc_i, provider_mode, timeline

rvars == <<user_query, chat_history, search_query, rpc>>

evars == <<adapter, text, epc, provider_calls, provider_reply, stdout, embedding>>

svars == <<method, query, top, vector_field, semantic_config,
           spc, index_calls, index_reply, results>>

wvars == <<data, hpc, response>>

uvars == <<documents, upc, batch_i, index, upload_calls, upload_replies, upload_log>>

pvars == <<pdocs, ppc, doc_i, provider_mode, timeline>>

\* The web handler and the two scripts.
appvars == <<wvars, uvars, pvars>>

vars == <<rvars, evars, svars, wvars, uvars, pvars>>

(***************************************************************************)
(* Python string primitives                                                *)
(***************************************************************************)

\* The characters str.split() and str.strip() treat as whitespace.
Whitespace == {" ", "\t", "\n"}

UpperCase == <<"A","B","C","D","E","F","G","H","I","J","K","L","M",
               "N","O","P","Q","R","S","T","U","V","W","X","Y","Z">>

LowerCase == <<"a","b","c","d","e","f","g","h","i","j","k","l","m",
               "n","o","p","q","r","s","t","u","v","w","x","y","z">>

\* str.lower() on one character.
lower_char(c) ==
    IF \E i \in 1..Len(UpperCase) : UpperCase[i] = c
    THEN LowerCase[CHOOSE i \in 1..Len(UpperCase) : UpperCase[i] = c]
    ELSE c

\* str.lower()
lower(s) == [i \in 1..Len(s) |-> lower_char(s[i])]

\* needle in hay
contains(hay, needle) ==
    \E i \in 1..(Len(hay) - Len(needle) + 1) :
        SubSeq(hay, i, i + Len(needle) - 1) = needle

\* Length of the run of non-whitespace characters s starts with.
word_len(s) ==
    IF \A i \in 1..Len(s) : s[i] \notin Whitespace
    THEN Len(s)
    ELSE (CHOOSE i \in 1..Len(s) :
              /\ s[i] \in Whitespace
              /\ \A j \in 1..(i - 1) : s[j] \notin Whitespace) - 1

\* str.split() with no separator: the maximal runs of non-whitespace.
RECURSIVE split(_)
split(s) ==
    IF s = <<>> THEN <<>>
    ELSE IF Head(s) \in Whitespace THEN split(Tail(s))
    ELSE <<SubSeq(s, 1, word_len(s))>> \o split(SubSeq(s, word_len(s) + 1, Len(s)))

\* str.strip() with no argument: drop the leading and trailing whitespace.
strip(s) ==
    IF \A i \in 1..Len(s) : s[i] \in Whitespace THEN <<>>
    ELSE SubSeq(s,
            CHOOSE i \in 1..Len(s) :
                s[i] \notin Whitespace /\ \A j \in 1..(i - 1) : s[j] \in Whitespace,
            CHOOSE i \in 1..Len(s) :
                s[i] \notin Whitespace /\ \A j \in (i + 1)..Len(s) : s[j] \in Whitespace)

None == [isNone |-> TRUE, chars |-> <<>>]

Str(s) == [isNone |-> FALSE, chars |-> s]

\* Python truthiness of an optional string: None and "" are falsy.
truthy(v) == ~v.isNone /\ v.chars # <<>>

(***************************************************************************)
(* Query Reformulator: PromptFlows/extract_search_query.py                 *)
(***************************************************************************)

kw_more == <<"m","o","r","e">>

kw_elaborat == <<"e","l","a","b","o","r","a","t">>

FewTokens == 5

\* Line 14: the follow-up test.
needs_context_le(q) ==
    \/ Len(split(q)) <= FewTokens
    \/ contains(lower(q), kw_more)
    \/ contains(lower(q), kw_elaborat)

needs_context(q) ==
    \/ Len(split(q)) < FewTokens
    \/ contains(lower(q), kw_more)
    \/ contains(lower(q), kw_elaborat)

\* Lines 15-20: for message in reversed(chat_history), from index i down.
scan_any_role(history, i) ==
    IF i = 0 THEN None ELSE Str(history[i].content)

scan_forward(history, i) ==
    LET users == {j \in 1..i : history[j].role = "user"}
    IN  IF users = {} THEN None
        ELSE Str(history[CHOOSE j \in users : \A k \in users : j <= k].content)

RECURSIVE last_user_message(_, _)
last_user_message(history, i) ==
    IF i = 0 THEN None
    ELSE IF history[i].role = "user" THEN Str(history[i].content)
    ELSE last_user_message(history, i - 1)

\* Lines 1-25.
extract_search_query(q, history) ==
    IF history = <<>> THEN q
    ELSE IF needs_context(q)
         THEN LET last == last_user_message(history, Len(history))
              IN  IF truthy(last) THEN last.chars \o <<" ">> \o q ELSE q
         ELSE q

(***************************************************************************)
(* Inputs of the reformulator                                              *)
(***************************************************************************)

MaxTokens == 5

MaxHistory == 2

w_go == <<"g","o">>

w_smores == <<"s","M","o","R","e","s">>

w_elaborate == <<"E","l","a","b","o","r","a","t","e">>

Words == {w_go, w_smores, w_elaborate}

\* Two ways of laying the tokens out: single spaces, or runs of mixed
\* whitespace with padding at both ends.
Layouts == {"plain", "ragged"}

sep(layout) == IF layout = "plain" THEN <<" ">> ELSE <<"\t", " ">>

pad(layout) == IF layout = "plain" THEN <<>> ELSE <<" ", "\n">>

RECURSIVE join(_, _)
join(toks, layout) ==
    IF toks = <<>> THEN <<>>
    ELSE IF Len(toks) = 1 THEN toks[1]
    ELSE toks[1] \o sep(layout) \o join(Tail(toks), layout)

TokenSeqs == UNION {[1..n -> Words] : n \in 0..MaxTokens}

Queries == {pad(l) \o join(t, l) \o pad(l) : t \in TokenSeqs, l \in Layouts}

c_empty == <<>>

c_ask == <<"a","s","k"," ","X">>

c_answer == <<"o","k">>

Messages ==
    { [role |-> "user", content |-> c_empty],
      [role |-> "user", content |-> c_ask],
      [role |-> "assistant", content |-> c_answer],
      [role |-> "system", content |-> c_answer] }

Histories == UNION {[1..n -> Messages] : n \in 0..MaxHistory}

(***************************************************************************)
(* The call of the reformulator                                            *)
(***************************************************************************)

IdleReform ==
    /\ user_query = <<>>
    /\ chat_history = <<>>
    /\ search_query = <<>>
    /\ rpc = "idle"

ExtractSearchQuery ==
    /\ rpc = "call"
    /\ search_query' = extract_search_query(user_query, chat_history)
    /\ rpc' = "returned"
    /\ UNCHANGED <<user_query, chat_history>>
    /\ UNCHANGED <<evars, svars, appvars>>

(***************************************************************************)
(* Embedding Provider Adapter: generate_embeddings.py get_embeddings and   *)
(* vector_search_client.py VectorSearchClient.generate_embeddings          *)
(***************************************************************************)

\* Length of the zero vector, [0.0] * 1536.
D == 1536

\* Truncation limit, len(text) > 8000.
MaxChars == 8000

vector_of(n, x) == [i \in 1..n |-> x]

\* [0.0] * 1536
zero_vector == vector_of(D, 0)

\* `not text or text.strip() == ""`
is_blank_no_strip(t) == ~truthy(t)

is_blank(t) == ~truthy(t) \/ strip(t.chars) = <<>>

\* `if len(text) > 8000: text = text[:8000]`
truncate_tail(s) ==
    IF Len(s) > MaxChars THEN SubSeq(s, Len(s) - MaxChars + 1, Len(s)) ELSE s

truncate(s) == IF Len(s) > MaxChars THEN SubSeq(s, 1, MaxChars) ELSE s

\* The deployment name both adapters pass as `model`.
azure_openai_embedding_deployment == "AZURE_OPENAI_EMBEDDING_NAME"

\* What embeddings.create can do: raise, or return a response whose data is
\* missing, empty, or a list of items that may lack the embedding attribute.
ProviderErrors == {"APITimeoutError", "RateLimitError"}

ProviderDims == {0, D - 1, D, D + 1}

Item(n, x) == [has_embedding |-> TRUE, embedding |-> vector_of(n, x)]

BareItem == [has_embedding |-> FALSE, embedding |-> <<>>]

FirstItems == {Item(n, 1) : n \in ProviderDims} \cup {BareItem}

Raises(e) == [raises |-> e, has_data |-> FALSE, data |-> <<>>]

Response(items) == [raises |-> "", has_data |-> TRUE, data |-> items]

NoData == [raises |-> "", has_data |-> FALSE, data |-> <<>>]

NoReply == [raises |-> "", has_data |-> FALSE, data |-> <<>>]

ProviderOutcomes ==
    {Raises(e) : e \in ProviderErrors}
        \cup {NoData, Response(<<>>)}
        \cup {Response(<<it>>) : it \in FirstItems}
        \cup {Response(<<it, Item(D, 2)>>) : it \in FirstItems}

\* The try body after the call: `response.data[0].embedding`.  The result is
\* the embedding, or the exception the expression raises.
first_embedding(reply) ==
    IF reply.raises # "" THEN [ok |-> FALSE, value |-> <<>>, error |-> reply.raises]
    ELSE IF ~reply.has_data THEN [ok |-> FALSE, value |-> <<>>, error |-> "TypeError"]
    ELSE IF Len(reply.data) = 0 THEN [ok |-> FALSE, value |-> <<>>, error |-> "IndexError"]
    ELSE IF ~reply.data[1].has_embedding
         THEN [ok |-> FALSE, value |-> <<>>, error |-> "AttributeError"]
    ELSE [ok |-> TRUE, value |-> reply.data[1].embedding, error |-> ""]

\* `except Exception as e`: every error above is a subclass of Exception.
caught_provider_only(e) == e \in ProviderErrors

caught(e) == e \in ProviderErrors \cup {"TypeError", "IndexError", "AttributeError"}

\* print(f"Error generating embeddings: {str(e)}")
diagnostic(e) == [message |-> "Error generating embeddings", error |-> e]

\* Entry of either adapter up to the provider call: the blank test, the
\* truncation, then embeddings.create(input=text, model=...).
embed_enter(name) ==
    /\ epc = "enter"
    /\ adapter = name
    /\ IF is_blank(text)
       THEN /\ embedding' = zero_vector
            /\ epc' = "returned"
            /\ UNCHANGED provider_calls
       ELSE /\ provider_calls' = Append(provider_calls,
                   [input |-> truncate(text.chars),
                    model |-> azure_openai_embedding_deployment])
            /\ epc' = "awaiting"
            /\ UNCHANGED embedding
    /\ UNCHANGED <<adapter, text, provider_reply, stdout>>

\* The rest of either adapter, from the provider's reply to the return.
embed_resume(name) ==
    /\ epc = "awaiting"
    /\ adapter = name
    /\ \E reply \in ProviderOutcomes :
          LET r == first_embedding(reply)
          IN  /\ provider_reply' = reply
              /\ IF r.ok
                 THEN /\ embedding' = r.value
                      /\ epc' = "returned"
                      /\ UNCHANGED stdout
                 ELSE IF caught(r.error)
                 THEN /\ stdout' = Append(stdout, diagnostic(r.error))
                      /\ embedding' = zero_vector
                      /\ epc' = "returned"
                 ELSE /\ epc' = "raised"
                      /\ UNCHANGED <<stdout, embedding>>
    /\ UNCHANGED <<adapter, text, provider_calls>>

\* generate_embeddings.py
get_embeddings_enter == embed_enter("get_embeddings") /\ UNCHANGED <<rvars, svars, appvars>>

get_embeddings_resume == embed_resume("get_embeddings") /\ UNCHANGED <<rvars, svars, appvars>>

\* vector_search_client.py
generate_embeddings_enter == embed_enter("generate_embeddings") /\ UNCHANGED <<rvars, svars, appvars>>

generate_embeddings_resume == embed_resume("generate_embeddings") /\ UNCHANGED <<rvars, svars, appvars>>

IdleEmbed ==
    /\ adapter = "none"
    /\ text = None
    /\ epc = "idle"
    /\ provider_calls = <<>>
    /\ provider_reply = NoReply
    /\ stdout = <<>>
    /\ embedding = <<>>

(***************************************************************************)
(* Search client: vector_search_client.py VectorSearchClient               *)
(***************************************************************************)

\* An argument the caller may leave out, pass as None, or pass as a value.
Omitted == [given |-> FALSE, isNone |-> FALSE, val |-> ""]

PassNone == [given |-> TRUE, isNone |-> TRUE, val |-> ""]

Pass(v) == [given |-> TRUE, isNone |-> FALSE, val |-> v]

\* Python binds a parameter to its default exactly when it is left out.
bind_none_to_default(arg, default) ==
    IF arg.given /\ ~arg.isNone
    THEN [isNone |-> FALSE, val |-> arg.val]
    ELSE [isNone |-> FALSE, val |-> default]

bind(arg, default) ==
    IF arg.given
    THEN [isNone |-> arg.isNone, val |-> arg.val]
    ELSE [isNone |-> FALSE, val |-> default]

\* top: int = 5
DefaultTop == 5

\* The top argument left out, or passed as the integer n.
OmittedTop == [given |-> FALSE, val |-> 0]

PassTop(n) == [given |-> TRUE, val |-> n]

\* vector_field: str = "contentVector"
default_vector_field == "contentVector"

\* semantic_config: str = "semantic-config"
default_semantic_config == "semantic-config"

\* top is an int whenever it is passed.
top_value == IF top.given THEN top.val ELSE DefaultTop

select_fields == <<"id", "title", "content", "category", "sourceUrl", "sourceName">>

\* A keyword argument search_client.search() was not given.
NotPassed == [passed |-> FALSE, isNone |-> FALSE, val |-> ""]

Passed(v) == [passed |-> TRUE, isNone |-> v.isNone, val |-> v.val]

\* VectorizedQuery(vector=query_vector, fields=[vector_field], k=...)
VectorizedQuery(vector, field, k) ==
    [vector |-> vector, fields |-> <<field>>, k |-> k]

\* Lines 103-115.
vector_search_request_with_text ==
    [search_text |-> Str(query),
     vector_queries |-> <<VectorizedQuery(embedding,
                             bind(vector_field, default_vector_field), top_value)>>,
     select |-> select_fields,
     top |-> top_value,
     query_type |-> NotPassed,
     semantic_configuration_name |-> NotPassed]

vector_search_request ==
    [search_text |-> None,
     vector_queries |-> <<VectorizedQuery(embedding,
                             bind(vector_field, default_vector_field), top_value)>>,
     select |-> select_fields,
     top |-> top_value,
     query_type |-> NotPassed,
     semantic_configuration_name |-> NotPassed]

\* Lines 138-151.
hybrid_search_request ==
    [search_text |-> Str(query),
     vector_queries |-> <<VectorizedQuery(embedding,
                             bind(vector_field, default_vector_field), top_value)>>,
     select |-> select_fields,
     top |-> top_value,
     query_type |-> Passed([isNone |-> FALSE, val |-> "simple"]),
     semantic_configuration_name |-> NotPassed]

\* Lines 176-190.
semantic_pool_unscaled(n) == n

semantic_pool(n) == n * 3

semantic_search_request ==
    [search_text |-> Str(query),
     vector_queries |-> <<VectorizedQuery(embedding,
                             bind(vector_field, default_vector_field),
                             semantic_pool(top_value))>>,
     select |-> select_fields,
     top |-> top_value,
     query_type |-> Passed([isNone |-> FALSE, val |-> "semantic"]),
     semantic_configuration_name |->
         Passed(bind(semantic_config, default_semantic_config))]

\* What search_client.search and the iteration over its result can do.
IndexErrors == {"HttpResponseError"}

\* Records of the index: d1 has a short content, d2 one of 501 characters.
doc_d1 == [id |-> "d1", title |-> "t1", content |-> <<"c", "1">>]

doc_d2 == [id |-> "d2", title |-> "t2", content |-> [i \in 1..501 |-> "x"]]

Docs == {<<>>, <<doc_d1>>, <<doc_d2, doc_d1>>}

NoIndexReply == [raises |-> "", docs |-> <<>>]

IndexOutcomes ==
    {[raises |-> e, docs |-> <<>>] : e \in IndexErrors}
        \cup {[raises |-> "", docs |-> d] : d \in Docs}

\* query_vector = self.generate_embeddings(query): the call.
search_enter(name) ==
    /\ spc = "enter"
    /\ method = name
    /\ spc' = "embedding"
    /\ adapter' = "generate_embeddings"
    /\ text' = Str(query)
    /\ epc' = "enter"
    /\ UNCHANGED <<provider_calls, provider_reply, stdout, embedding>>
    /\ UNCHANGED <<method, query, top, vector_field, semantic_config,
                   index_calls, index_reply, results>>
    /\ UNCHANGED <<rvars, appvars>>

\* results = self.search_client.search(...): the call.
search_dispatch_twice(name, request) ==
    /\ spc = "embedding"
    /\ method = name
    /\ epc = "returned"
    /\ index_calls' = index_calls \o <<request, request>>
    /\ spc' = "searching"
    /\ UNCHANGED <<method, query, top, vector_field, semantic_config,
                   index_reply, results>>
    /\ UNCHANGED <<rvars, evars, appvars>>

search_dispatch(name, request) ==
    /\ spc = "embedding"
    /\ method = name
    /\ epc = "returned"
    /\ index_calls' = Append(index_calls, request)
    /\ spc' = "searching"
    /\ UNCHANGED <<method, query, top, vector_field, semantic_config,
                   index_reply, results>>
    /\ UNCHANGED <<rvars, evars, appvars>>

\* return [dict(result) for result in results]; an error of the index is
\* not handled and leaves the method.
search_return_masking(name) ==
    /\ spc = "searching"
    /\ method = name
    /\ \E reply \in IndexOutcomes :
          /\ index_reply' = reply
          /\ spc' = "returned"
          /\ results' = reply.docs
    /\ UNCHANGED <<method, query, top, vector_field, semantic_config, index_calls>>
    /\ UNCHANGED <<rvars, evars, appvars>>

search_return(name) ==
    /\ spc = "searching"
    /\ method = name
    /\ \E reply \in IndexOutcomes :
          /\ index_reply' = reply
          /\ IF reply.raises # ""
             THEN spc' = "raised" /\ UNCHANGED results
             ELSE spc' = "returned" /\ results' = reply.docs
    /\ UNCHANGED <<method, query, top, vector_field, semantic_config, index_calls>>
    /\ UNCHANGED <<rvars, evars, appvars>>

vector_search_enter == search_enter("vector_search")

vector_search_dispatch == search_dispatch("vector_search", vector_search_request)

vector_search_return == search_return("vector_search")

hybrid_search_enter == search_enter("hybrid_search")

hybrid_search_dispatch == search_dispatch("hybrid_search", hybrid_search_request)

hybrid_search_return == search_return("hybrid_search")

semantic_search_enter == search_enter("semantic_search")

semantic_search_dispatch == search_dispatch("semantic_search", semantic_search_request)

semantic_search_return == search_return("semantic_search")

IdleSearch ==
    /\ method = "none"
    /\ query = <<>>
    /\ top = OmittedTop
    /\ vector_field = Omitted
    /\ semantic_config = Omitted
    /\ spc = "idle"
    /\ index_calls = <<>>
    /\ index_reply = NoIndexReply
    /\ results = <<>>

(***************************************************************************)
(* Web handler: sample_web_app.py search()                                 *)
(***************************************************************************)

\* The `top` of the JSON body: missing, a number, a string of digits, or a
\* string that is no number.
TopMissing == [kind |-> "missing", val |-> 0]

TopNumber(n) == [kind |-> "number", val |-> n]

TopDigits(n) == [kind |-> "digits", val |-> n]

TopText == [kind |-> "text", val |-> 0]

\* A request without a JSON body: request.json is None.
NoBody == [has_body |-> FALSE, query |-> None, search_type |-> Omitted, top |-> TopMissing]

Body(q, t, n) == [has_body |-> TRUE, query |-> q, search_type |-> t, top |-> n]

\* int(data.get('top', 5)): the value, or the ValueError of int().
int_top(t) ==
    IF t.kind = "missing" THEN [ok |-> TRUE, val |-> 5]
    ELSE IF t.kind \in {"number", "digits"} THEN [ok |-> TRUE, val |-> t.val]
    ELSE [ok |-> FALSE, val |-> 0]

\* data.get('query', '')
get_query(q) == IF q.isNone THEN <<>> ELSE q.chars

\* data.get('search_type', 'vector')
get_search_type(t) == IF t.given THEN t.val ELSE "vector"

\* Content longer than this is cut and "..." appended.
ContentLimit == 500

\* Lines 60-74: the fields of a result that are returned.
processed_result(r) ==
    [id |-> r.id,
     title |-> r.title,
     content |-> IF Len(r.content) > ContentLimit
                 THEN SubSeq(r.content, 1, ContentLimit) \o <<".", ".", ".">>
                 ELSE r.content]

NoResponse == [status |-> 0, error |-> "", results |-> <<>>, count |-> 0,
               query |-> <<>>, search_type |-> ""]

\* jsonify({'error': message}), status
error_response(status, message) ==
    [status |-> status, error |-> message, results |-> <<>>, count |-> 0,
     query |-> <<>>, search_type |-> ""]

\* Lines 77-82.
ok_response(found, q, t) ==
    [status |-> 200, error |-> "",
     results |-> [i \in 1..Len(found) |-> processed_result(found[i])],
     count |-> Len(found), query |-> q, search_type |-> t]

SearchTypesOrAny == {"vector", "hybrid", "semantic", "fuzzy"}

SearchTypes == {"vector", "hybrid", "semantic"}

\* search_client.<type>_search(query, top): the method that is called.
method_of(t) ==
    IF t = "vector" THEN "vector_search"
    ELSE IF t = "hybrid" THEN "hybrid_search"
    ELSE "semantic_search"

\* Lines 38-57: from the request to the call of the search client, or to
\* the response when the request is refused.
search_handler_enter ==
    /\ hpc = "enter"
    /\ IF ~data.has_body
       THEN /\ response' = error_response(500, "AttributeError")
            /\ hpc' = "responded"
            /\ UNCHANGED svars
       ELSE IF ~int_top(data.top).ok
       THEN /\ response' = error_response(500, "ValueError")
            /\ hpc' = "responded"
            /\ UNCHANGED svars
       ELSE IF get_query(data.query) = <<>>
       THEN /\ response' = error_response(400, "Query is required")
            /\ hpc' = "responded"
            /\ UNCHANGED svars
       ELSE IF get_search_type(data.search_type) \in SearchTypes
       THEN /\ method' = method_of(get_search_type(data.search_type))
            /\ query' = get_query(data.query)
            /\ top' = PassTop(int_top(data.top).val)
            /\ spc' = "enter"
            /\ hpc' = "searching"
            /\ UNCHANGED <<vector_field, semantic_config, index_calls,
                           index_reply, results, response>>
       ELSE /\ response' = error_response(400, "Invalid search type")
            /\ hpc' = "responded"
            /\ UNCHANGED svars
    /\ UNCHANGED <<data, rvars, evars, uvars, pvars>>

\* Lines 59-85: from the return of the search client to the response; an
\* exception of the search client ends in the except clause.
search_handler_resume ==
    /\ hpc = "searching"
    /\ spc \in {"returned", "raised"}
    /\ response' =
          IF spc = "raised"
          THEN error_response(500, index_reply.raises)
          ELSE ok_response(results, query, get_search_type(data.search_type))
    /\ hpc' = "responded"
    /\ UNCHANGED <<data, rvars, evars, svars, uvars, pvars>>

IdleWeb ==
    /\ data = NoBody
    /\ hpc = "idle"
    /\ response = NoResponse

(***************************************************************************)
(* Batch upload: upload_documents.py upload_documents                      *)
(***************************************************************************)

\* batch_size = 100
batch_size == 100

\* seq[a:b] with 0 <= a: the slice stops at the end of the sequence.
slice(seq, a, b) == SubSeq(seq, a + 1, IF b > Len(seq) THEN Len(seq) ELSE b)

\* batch_end = min(i + batch_size, len(documents))
batch_end_short(i, n) == IF i + batch_size - 1 < n THEN i + batch_size - 1 ELSE n

batch_end(i, n) == IF i + batch_size < n THEN i + batch_size ELSE n

\* range(0, len(documents), batch_size): the value of i after i.
range_step_same(i) == i

range_step(i) == i + batch_size

\* i//batch_size + 1, the number printed for the batch.
batch_number(i) == (i \div batch_size) + 1

\* upload_batch.actions = [{"action": "upload", "document": doc} for doc in batch]
upload_actions_reversed(batch) ==
    [j \in 1..Len(batch) |->
        [action |-> "upload", document |-> batch[Len(batch) + 1 - j]]]

upload_actions(batch) ==
    [j \in 1..Len(batch) |-> [action |-> "upload", document |-> batch[j]]]

\* What index_documents can do with a batch: raise before the index has
\* taken the batch, or return a result whose list is empty, reports every
\* document as succeeded, or reports the first document as failed.
UploadErrors == {"ServiceRequestError"}

indexing_result(doc, ok) ==
    [key |-> doc.id, succeeded |-> ok,
     error_message |-> IF ok THEN "" ELSE "rejected"]

UploadRaises(e) == [raises |-> e, results |-> <<>>]

UploadResult(rs) == [raises |-> "", results |-> rs]

UploadOutcomes(actions) ==
    {UploadRaises(e) : e \in UploadErrors}
        \cup {UploadResult(<<>>)}
        \cup {UploadResult([j \in 1..Len(actions) |->
                  indexing_result(actions[j].document, TRUE)])}
        \cup {UploadResult([j \in 1..Len(actions) |->
                  indexing_result(actions[j].document, j # 1)])}

\* The index has no record.
EmptyIndex == [id \in {} |-> <<>>]

\* The index after a batch: the "upload" actions reported as succeeded took
\* effect in the order of the batch, each one inserting the record with the
\* document's id or replacing the one the index already holds, so that the
\* last of them with an id decides the record.
index_after(idx, actions, rs) ==
    LET applied == {j \in 1..Len(actions) :
                       /\ j <= Len(rs)
                       /\ rs[j].succeeded
                       /\ actions[j].action = "upload"}
        last(id) == CHOOSE j \in applied :
                       /\ actions[j].document.id = id
                       /\ \A k \in applied : actions[k].document.id = id => k <= j
    IN  [id \in DOMAIN idx \cup {actions[j].document.id : j \in applied} |->
            IF \E j \in applied : actions[j].document.id = id
            THEN actions[last(id)].document
            ELSE idx[id]]

\* The lines the script prints.
NoCounts == 0 - 1

line_uploading(n) ==
    [kind |-> "uploading", batch |-> 0, succeeded |-> NoCounts, attempted |-> n,
     key |-> 0, error |-> ""]

line_no_results(b) ==
    [kind |-> "no_results", batch |-> b, succeeded |-> NoCounts, attempted |-> NoCounts,
     key |-> 0, error |-> ""]

line_summary_full(b, ok, n) ==
    [kind |-> "summary", batch |-> b, succeeded |-> ok, attempted |-> batch_size,
     key |-> 0, error |-> ""]

line_summary(b, ok, n) ==
    [kind |-> "summary", batch |-> b, succeeded |-> ok, attempted |-> n,
     key |-> 0, error |-> ""]

line_document_error(k, e) ==
    [kind |-> "document_error", batch |-> 0, succeeded |-> NoCounts,
     attempted |-> NoCounts, key |-> k, error |-> e]

line_batch_error(b, e) ==
    [kind |-> "batch_error", batch |-> b, succeeded |-> NoCounts,
     attempted |-> NoCounts, key |-> 0, error |-> e]

line_completed ==
    [kind |-> "completed", batch |-> 0, succeeded |-> NoCounts, attempted |-> NoCounts,
     key |-> 0, error |-> ""]

\* sum(1 for r in result.results if r.succeeded)
count_succeeded(rs) == Cardinality({j \in 1..Len(rs) : rs[j].succeeded})

\* Lines 69-71: one line for every result that did not succeed, in order.
error_lines(rs) ==
    LET failed == SelectSeq(rs, LAMBDA r : ~r.succeeded)
    IN  [j \in 1..Len(failed) |->
            line_document_error(failed[j].key, failed[j].error_message)]

\* Lines 61-71: what is printed for a result that was returned.
result_lines(i, batch, rs) ==
    IF rs = <<>>
    THEN <<line_no_results(batch_number(i))>>
    ELSE <<line_summary(batch_number(i), count_succeeded(rs), Len(batch))>>
             \o error_lines(rs)

\* `except Exception as e` of the loop body.
upload_caught_none(e) == FALSE

upload_caught(e) == e \in UploadErrors

\* Lines 30-45: the documents are loaded, the count is printed, the loop starts.
upload_documents_begin ==
    /\ upc = "start"
    /\ upload_log' = Append(upload_log, line_uploading(Len(documents)))
    /\ batch_i' = 0
    /\ upc' = "loop"
    /\ UNCHANGED <<documents, index, upload_calls, upload_replies>>
    /\ UNCHANGED <<rvars, evars, svars, wvars, pvars>>

\* Lines 46-58: the next batch is cut and submitted; line 76 after the loop.
upload_documents_submit ==
    /\ upc = "loop"
    /\ IF batch_i < Len(documents)
       THEN /\ upload_calls' = Append(upload_calls,
                   [i |-> batch_i,
                    actions |-> upload_actions(
                        slice(documents, batch_i, batch_end(batch_i, Len(documents))))])
            /\ upc' = "awaiting"
            /\ UNCHANGED upload_log
       ELSE /\ upload_log' = Append(upload_log, line_completed)
            /\ upc' = "done"
            /\ UNCHANGED upload_calls
    /\ UNCHANGED <<documents, batch_i, index, upload_replies>>
    /\ UNCHANGED <<rvars, evars, svars, wvars, pvars>>

\* Lines 58-74: index_documents returns or raises, the outcome is printed
\* and the loop goes on with the next i.
upload_documents_result ==
    /\ upc = "awaiting"
    /\ LET call == upload_calls[Len(upload_calls)]
           batch == slice(documents, batch_i, batch_end(batch_i, Len(documents)))
       IN  \E reply \in UploadOutcomes(call.actions) :
              /\ upload_replies' = Append(upload_replies, reply)
              /\ index' = index_after(index, call.actions, reply.results)
              /\ IF reply.raises = ""
                 THEN /\ upload_log' = upload_log \o result_lines(batch_i, batch, reply.results)
                      /\ batch_i' = range_step(batch_i)
                      /\ upc' = "loop"
                 ELSE IF upload_caught(reply.raises)
                 THEN /\ upload_log' = Append(upload_log,
                             line_batch_error(batch_number(batch_i), reply.raises))
                      /\ batch_i' = range_step(batch_i)
                      /\ upc' = "loop"
                 ELSE /\ upc' = "raised"
                      /\ UNCHANGED <<upload_log, batch_i>>
    /\ UNCHANGED <<documents, upload_calls>>
    /\ UNCHANGED <<rvars, evars, svars, wvars, pvars>>

IdleUpload ==
    /\ documents = <<>>
    /\ upc = "idle"
    /\ batch_i = 0
    /\ index = EmptyIndex
    /\ upload_calls = <<>>
    /\ upload_replies = <<>>
    /\ upload_log = <<>>

(***************************************************************************)
(* Batch embedding: generate_embeddings.py process_documents               *)
(***************************************************************************)

\* `if i > 0 and i % 10 == 0`
pace_every == 10

pace_due_from_zero(i) == i % pace_every = 0

pace_due(i) == i > 0 /\ i % pace_every = 0

\* time.sleep(0.5), in tenths of a second; the call returns no earlier.
sleep_tenths == 5

\* doc.get("title", ""), doc.get("content", "")
doc_get(doc, key) == IF key \in DOMAIN doc THEN doc[key] ELSE Str(<<>>)

\* What the provider answers during one run: an embedding of length D to
\* every call, or an error to every call.
ProviderModes == {"up", "down"}

reply_in(mode) ==
    IF mode = "up" THEN Response(<<Item(D, 1)>>) ELSE Raises("RateLimitError")

\* The value get_embeddings(t) returns when the provider answers with reply.
get_embeddings_value(t, reply) ==
    IF is_blank(t) THEN zero_vector
    ELSE LET r == first_embedding(reply)
         IN  IF r.ok THEN r.value ELSE zero_vector

\* doc[key] = value
set_item(doc, key, value) ==
    [k \in DOMAIN doc \cup {key} |-> IF k = key THEN value ELSE doc[k]]

\* What the run does, in the order it does it: what it prints, when it
\* sleeps, and the get_embeddings calls.
event_print(what, n) == [ev |-> "print", i |-> n, tenths |-> 0, key |-> what]

event_sleep(i) == [ev |-> "sleep", i |-> i, tenths |-> sleep_tenths, key |-> ""]

event_embed(i, key) == [ev |-> "embed", i |-> i, tenths |-> 0, key |-> key]

\* Lines 77-80: the documents are loaded and counted.
process_documents_begin ==
    /\ ppc = "start"
    /\ timeline' = Append(timeline, event_print("Processing", Len(pdocs)))
    /\ doc_i' = 0
    /\ ppc' = "head"
    /\ UNCHANGED <<pdocs, provider_mode>>
    /\ UNCHANGED <<rvars, evars, svars, wvars, uvars>>

\* Lines 83-87: the next document is taken, after the delay when one is due.
process_documents_pace ==
    /\ ppc = "head"
    /\ doc_i < Len(pdocs)
    /\ timeline' = IF pace_due(doc_i)
                   THEN timeline \o <<event_print("Processed", doc_i), event_sleep(doc_i)>>
                   ELSE timeline
    /\ ppc' = "body"
    /\ UNCHANGED <<pdocs, doc_i, provider_mode>>
    /\ UNCHANGED <<rvars, evars, svars, wvars, uvars>>

\* Lines 90-95: both embeddings are generated and stored in the document.
process_documents_embed ==
    /\ ppc = "body"
    /\ LET doc == pdocs[doc_i + 1]
           title_embedding == get_embeddings_value(doc_get(doc, "title"), reply_in(provider_mode))
           content_embedding == get_embeddings_value(doc_get(doc, "content"), reply_in(provider_mode))
       IN  pdocs' = [pdocs EXCEPT ![doc_i + 1] =
                        set_item(set_item(doc, "titleVector", title_embedding),
                                 "contentVector", content_embedding)]
    /\ timeline' = timeline \o <<event_embed(doc_i, "title"), event_embed(doc_i, "content")>>
    /\ doc_i' = doc_i + 1
    /\ ppc' = "head"
    /\ UNCHANGED provider_mode
    /\ UNCHANGED <<rvars, evars, svars, wvars, uvars>>

\* Lines 97-106: after the last document the list is saved and returned.
process_documents_finish ==
    /\ ppc = "head"
    /\ doc_i >= Len(pdocs)
    /\ timeline' = timeline \o <<event_print("Completed", Len(pdocs)),
                                  event_print("saved", Len(pdocs))>>
    /\ ppc' = "done"
    /\ UNCHANGED <<pdocs, doc_i, provider_mode>>
    /\ UNCHANGED <<rvars, evars, svars, wvars, uvars>>

IdleProcess ==
    /\ pdocs = <<>>
    /\ ppc = "idle"
    /\ doc_i = 0
    /\ provider_mode = "up"
    /\ timeline = <<>>

(***************************************************************************)
(* Inputs of the adapter                                                   *)
(***************************************************************************)

\* The longest text is MaxChars + MaxOver characters long.
MaxOver == 2

\* A text of n characters a, b, c, a, b, c, ...
letters(n) == [i \in 1..n |-> <<"a", "b", "c">>[(i % 3) + 1]]

\* n spaces followed by one letter.
spaces_then_letter(n) == [i \in 1..(n + 1) |-> IF i <= n THEN " " ELSE "z"]

spaces(n) == [i \in 1..n |-> " "]

Texts ==
    {None, Str(<<>>), Str(<<" ">>), Str(<<" ", "\t", "\n">>),
     Str(<<"a">>), Str(<<" ", "a", "\n">>)}
        \cup {Str(letters(n)) : n \in (MaxChars - 1)..(MaxChars + MaxOver)}
        \cup {Str(spaces(MaxChars + 1)), Str(spaces_then_letter(MaxChars))}

Adapters == {"get_embeddings", "generate_embeddings"}

InitEmbed ==
    /\ adapter \in Adapters
    /\ text \in Texts
    /\ epc = "enter"
    /\ provider_calls = <<>>
    /\ provider_reply = NoReply
    /\ stdout = <<>>
    /\ embedding = <<>>
    /\ IdleReform
    /\ IdleSearch
    /\ IdleWeb /\ IdleUpload /\ IdleProcess

NextEmbed ==
    \/ get_embeddings_enter
    \/ get_embeddings_resume
    \/ generate_embeddings_enter
    \/ generate_embeddings_resume

SpecEmbed == InitEmbed /\ [][NextEmbed]_vars

(***************************************************************************)
(* Inputs of the search client                                             *)
(***************************************************************************)

\* top is passed as an integer in -1..MaxTop, or left out.
MaxTop == 3

TopArgs == {OmittedTop} \cup {PassTop(n) : n \in (0 - 1)..MaxTop}

VectorFieldArgs == {Omitted, Pass("titleVector")}

SemanticConfigArgs == {Omitted, PassNone, Pass(""), Pass("my-semantic-config")}

SearchQueries == {<<>>, <<"a", "i">>}

InitSearch ==
    /\ method \in {"vector_search", "hybrid_search", "semantic_search"}
    /\ query \in SearchQueries
    /\ top \in TopArgs
    /\ vector_field \in VectorFieldArgs
    /\ semantic_config \in
         IF method = "semantic_search" THEN SemanticConfigArgs ELSE {Omitted}
    /\ spc = "enter"
    /\ index_calls = <<>>
    /\ index_reply = NoIndexReply
    /\ results = <<>>
    /\ IdleEmbed
    /\ IdleReform
    /\ IdleWeb /\ IdleUpload /\ IdleProcess

\* Requests of the web handler.
RequestQueries == {None, Str(<<>>), Str(<<" ">>), Str(<<"a", "i">>)}

RequestTypes == {Omitted, Pass("vector"), Pass("hybrid"), Pass("semantic"), Pass("fuzzy")}

RequestTops ==
    {TopMissing, TopText, TopDigits(2)} \cup {TopNumber(n) : n \in (0 - 1)..MaxTop}

Requests ==
    {NoBody} \cup {Body(q, t, n) : q \in RequestQueries, t \in RequestTypes, n \in RequestTops}

InitWeb ==
    /\ data \in Requests
    /\ hpc = "enter"
    /\ response = NoResponse
    /\ IdleSearch
    /\ IdleEmbed
    /\ IdleReform
    /\ IdleUpload /\ IdleProcess

NextSearch ==
    \/ vector_search_enter
    \/ vector_search_dispatch
    \/ vector_search_return
    \/ hybrid_search_enter
    \/ hybrid_search_dispatch
    \/ hybrid_search_return
    \/ semantic_search_enter
    \/ semantic_search_dispatch
    \/ semantic_search_return
    \/ generate_embeddings_enter
    \/ generate_embeddings_resume

SpecSearch == InitSearch /\ [][NextSearch]_vars

\* Document lists of upload_documents: n documents with the ids 1..n and
\* the content of one version; with a repeat, the last document carries the
\* id of the first and another content.
MaxFull == 2

ListSizes ==
    {0, 1, batch_size - 1, batch_size, batch_size + 1}
        \cup {k * batch_size + (batch_size \div 2) : k \in 2..MaxFull}

document_list(n, version, repeat) ==
    [j \in 1..n |->
        IF repeat /\ j = n /\ n > 1
        THEN [id |-> 1, content |-> version + 10]
        ELSE [id |-> j, content |-> version]]

DocumentLists ==
    {document_list(n, v, r) : n \in ListSizes, v \in {1, 2}, r \in BOOLEAN}

\* What earlier runs left in the index: nothing, or the first version of
\* the documents 1..batch_size + 1.
stored(list) ==
    [id \in {list[j].id : j \in 1..Len(list)} |->
        list[CHOOSE j \in 1..Len(list) :
                 list[j].id = id /\ \A k \in (j + 1)..Len(list) : list[k].id # id]]

PriorIndexes == {EmptyIndex, stored(document_list(batch_size + 1, 1, FALSE))}

InitUpload ==
    /\ documents \in DocumentLists
    /\ index \in PriorIndexes
    /\ upc = "start"
    /\ batch_i = 0
    /\ upload_calls = <<>>
    /\ upload_replies = <<>>
    /\ upload_log = <<>>
    /\ IdleReform /\ IdleEmbed /\ IdleSearch /\ IdleWeb /\ IdleProcess

NextUpload ==
    \/ upload_documents_begin
    \/ upload_documents_submit
    \/ upload_documents_result

SpecUpload == InitUpload /\ [][NextUpload]_vars

\* Document files of process_documents: n documents, of which every third
\* has no title when the file is one with gaps.
MaxTens == 2

document_file(n, gaps) ==
    [j \in 1..n |->
        IF gaps /\ j % 3 = 0
        THEN [id |-> j, content |-> Str(<<"c">>)]
        ELSE [id |-> j, title |-> Str(<<"t">>), content |-> Str(<<"c">>)]]

DocumentFiles ==
    {document_file(k * pace_every + r, g) :
        k \in 0..MaxTens, r \in {0, 1, pace_every - 1}, g \in BOOLEAN}

InitProcess ==
    /\ pdocs \in DocumentFiles
    /\ provider_mode \in ProviderModes
    /\ ppc = "start"
    /\ doc_i = 0
    /\ timeline = <<>>
    /\ IdleReform /\ IdleEmbed /\ IdleSearch /\ IdleWeb /\ IdleUpload

NextProcess ==
    \/ process_documents_begin
    \/ process_documents_pace
    \/ process_documents_embed
    \/ process_documents_finish

SpecProcess == InitProcess /\ [][NextProcess]_vars

NextWeb ==
    \/ search_handler_enter
    \/ search_handler_resume
    \/ NextSearch

SpecWeb == InitWeb /\ [][NextWeb]_vars

(***************************************************************************)
(* One call of the reformulator                                            *)
(***************************************************************************)

InitReform ==
    /\ user_query \in Queries
    /\ chat_history \in Histories
    /\ search_query = <<>>
    /\ rpc = "call"
    /\ IdleEmbed
    /\ IdleSearch
    /\ IdleWeb /\ IdleUpload /\ IdleProcess

NextReform == ExtractSearchQuery

SpecReform == InitReform /\ [][NextReform]_vars

(***************************************************************************)
(* Properties of the reformulator.  The expected values are stated         *)
(* independently of split(), lower() and the backward scan.                *)
(***************************************************************************)

\* Number of whitespace-delimited tokens: positions where a token starts.
TokenCount(s) ==
    Cardinality({i \in 1..Len(s) :
        /\ s[i] \notin Whitespace
        /\ (i = 1 \/ s[i - 1] \in Whitespace)})

\* Case-insensitive substring test.
ContainsFolded(s, kw) ==
    \E i \in 0..(Len(s) - Len(kw)) :
        \A j \in 1..Len(kw) : lower_char(s[i + j]) = kw[j]

NeedsContext(q) ==
    \/ TokenCount(q) < 5
    \/ ContainsFolded(q, kw_more)
    \/ ContainsFolded(q, kw_elaborat)

UserEntries(h) == {i \in 1..Len(h) : h[i].role = "user"}

MostRecentUser(h) ==
    h[CHOOSE i \in UserEntries(h) : \A j \in UserEntries(h) : j <= i]

Returned == rpc = "returned"

\* C1 (as stated): when the history has a user entry and the needs-context
\* predicate holds, the result is the content of the most recent user entry,
\* a space, and the query, whatever that content is (empty included).
C1_AsStated ==
    (Returned /\ UserEntries(chat_history) # {} /\ NeedsContext(user_query))
        => search_query = MostRecentUser(chat_history).content \o <<" ">> \o user_query

\* C1 (amended): under the same precondition the result is content + " " +
\* query when the most recent user entry has a non-empty content, and the
\* query unchanged when that content is empty; later entries with other
\* roles and earlier user entries are ignored in both cases.
C1_Reformulated ==
    (Returned /\ UserEntries(chat_history) # {} /\ NeedsContext(user_query))
        => search_query =
             IF MostRecentUser(chat_history).content # <<>>
             THEN MostRecentUser(chat_history).content \o <<" ">> \o user_query
             ELSE user_query

C1_Witness ==
    /\ Returned
    /\ NeedsContext(user_query)
    /\ Len(chat_history) = 2
    /\ chat_history[1] = [role |-> "user", content |-> c_ask]
    /\ chat_history[2].role = "assistant"
    /\ user_query = w_smores
    /\ search_query = c_ask \o <<" ">> \o w_smores

\* C2: a query of at least 5 tokens containing neither "more" nor "elaborat"
\* (case-insensitively) is returned unchanged for every history.
C2_Unchanged ==
    (Returned /\ ~NeedsContext(user_query)) => search_query = user_query

C2_Witness ==
    /\ Returned
    /\ ~NeedsContext(user_query)
    /\ TokenCount(user_query) = 5
    /\ UserEntries(chat_history) # {}
    /\ MostRecentUser(chat_history).content = c_ask
    /\ search_query = user_query

\* C3: with an empty history, or a history without any user entry, the query
\* is returned unchanged whether or not the needs-context predicate holds.
C3_NoUserUnchanged ==
    (Returned /\ UserEntries(chat_history) = {}) => search_query = user_query

C3_Witness ==
    /\ Returned
    /\ chat_history # <<>>
    /\ UserEntries(chat_history) = {}
    /\ NeedsContext(user_query)
    /\ search_query = user_query

(***************************************************************************)
(* Properties of the embedding adapter                                     *)
(***************************************************************************)

\* Empty, None, or nothing but whitespace.
Blank(t) == t.isNone \/ \A i \in 1..Len(t.chars) : t.chars[i] \in Whitespace

IsZeroVector(v) == Len(v) = 1536 /\ \A i \in 1..Len(v) : v[i] = 0

\* The first n characters of s, or all of s when it is shorter.
Prefix(s, n) == [i \in 1..(IF Len(s) < n THEN Len(s) ELSE n) |-> s[i]]

\* The provider answered with a response whose first item has an embedding.
ProviderSucceeded(reply) ==
    /\ reply.raises = ""
    /\ reply.has_data
    /\ Len(reply.data) >= 1
    /\ reply.data[1].has_embedding

EmbedReturned == epc = "returned"

\* C4 (as stated): every vector the adapter returns has exactly 1536
\* elements, on the empty-input path, on provider success whatever length
\* the provider's vector has, and on provider failure.
C4_AlwaysD == EmbedReturned => Len(embedding) = 1536

\* C5: for a text that is None, empty or only whitespace the adapter returns
\* the zero vector of length 1536 and the provider is never invoked.
C5_BlankNoCall ==
    (epc \in {"awaiting", "returned", "raised"} /\ Blank(text))
        => /\ epc = "returned"
           /\ IsZeroVector(embedding)
           /\ provider_calls = <<>>
           /\ provider_reply = NoReply

C5_Witness ==
    /\ EmbedReturned
    /\ text = Str(<<" ", "\t", "\n">>)
    /\ IsZeroVector(embedding)
    /\ provider_calls = <<>>

\* C6: for a non-blank text t the provider receives t when len(t) <= 8000
\* and the first 8000 characters of t otherwise, in a single request, and
\* never receives more than 8000 characters.
C6_Truncated ==
    /\ \A i \in 1..Len(provider_calls) : Len(provider_calls[i].input) <= 8000
    /\ (epc \in {"awaiting", "returned", "raised"} /\ ~Blank(text))
          => /\ Len(provider_calls) = 1
             /\ provider_calls[1].input = Prefix(text.chars, 8000)

C6_Witness ==
    /\ epc = "awaiting"
    /\ Len(text.chars) = 8002
    /\ Len(provider_calls) = 1
    /\ Len(provider_calls[1].input) = 8000
    /\ provider_calls[1].input # SubSeq(text.chars, 3, 8002)
    /\ provider_calls[1].input = SubSeq(text.chars, 1, 8000)

\* C7: the adapter never raises; when the provider call raises or its
\* response is malformed or empty, the adapter returns the zero vector of
\* length 1536 and prints exactly one diagnostic carrying the error; when
\* the provider succeeds it returns the first embedding of the response and
\* prints nothing.
C7_ErrorsAbsorbed ==
    /\ epc # "raised"
    /\ (EmbedReturned /\ provider_calls # <<>>)
          => IF ProviderSucceeded(provider_reply)
             THEN /\ embedding = provider_reply.data[1].embedding
                  /\ stdout = <<>>
             ELSE /\ IsZeroVector(embedding)
                  /\ Len(stdout) = 1
                  /\ stdout[1].error =
                        IF provider_reply.raises # "" THEN provider_reply.raises
                        ELSE IF ~provider_reply.has_data THEN "TypeError"
                        ELSE IF provider_reply.data = <<>> THEN "IndexError"
                        ELSE "AttributeError"

C7_Witness ==
    /\ EmbedReturned
    /\ provider_reply = Response(<<>>)
    /\ IsZeroVector(embedding)
    /\ Len(stdout) = 1
    /\ stdout[1].error = "IndexError"

(***************************************************************************)
(* Properties of the search client                                         *)
(***************************************************************************)

\* The topK of the call: the top argument, 5 when it is left out.
TopK == IF top.given THEN top.val ELSE 5

Dispatched == spc \in {"searching", "returned", "raised"}

TheRequest == index_calls[1]

\* No usable semantic configuration identifier: omitted, None or empty.
NoSemanticConfig ==
    \/ ~semantic_config.given
    \/ semantic_config.isNone
    \/ semantic_config.val = ""

\* The parts of a semantic request that do not involve the configuration.
SemanticRequestShape ==
    /\ Len(index_calls) = 1
    /\ TheRequest.search_text = Str(query)
    /\ Len(TheRequest.vector_queries) = 1
    /\ TheRequest.vector_queries[1].k = 3 * TopK
    /\ TheRequest.top = TopK
    /\ TheRequest.query_type = [passed |-> TRUE, isNone |-> FALSE, val |-> "semantic"]
    /\ TheRequest.semantic_configuration_name.passed

NonEmptyName(n) == n.passed /\ ~n.isNone /\ n.val # ""

C10_VectorHybridRequest ==
    (method \in {"vector_search", "hybrid_search"} /\ Dispatched)
        => /\ Len(index_calls) = 1
           /\ Len(TheRequest.vector_queries) = 1
           /\ TheRequest.vector_queries[1].k = TopK
           /\ TheRequest.top = TopK
           /\ TheRequest.vector_queries[1].fields =
                 <<[isNone |-> vector_field.given /\ vector_field.isNone,
                    val |-> IF vector_field.given THEN vector_field.val
                            ELSE "contentVector"]>>
           /\ ~TheRequest.semantic_configuration_name.passed
           /\ TheRequest.query_type.val # "semantic"
           /\ (method = "vector_search" =>
                  /\ TheRequest.search_text.isNone
                  /\ ~TheRequest.query_type.passed)
           /\ (method = "hybrid_search" =>
                  /\ TheRequest.search_text = Str(query)
                  /\ TheRequest.query_type =
                        [passed |-> TRUE, isNone |-> FALSE, val |-> "simple"])

C10_Witness ==
    /\ method = "vector_search"
    /\ spc = "searching"
    /\ query = <<"a", "i">>
    /\ ~vector_field.given
    /\ top.given /\ top.val = 2
    /\ TheRequest.search_text.isNone
    /\ TheRequest.vector_queries[1].k = 2
    /\ TheRequest.vector_queries[1].fields[1].val = "contentVector"

(***************************************************************************)
(* Properties of the web handler                                           *)
(***************************************************************************)

Responded == hpc = "responded"

\* The request names a strategy that is none of vector, hybrid, semantic.
InvalidStrategy ==
    /\ data.has_body
    /\ data.search_type.given
    /\ data.search_type.val \notin {"vector", "hybrid", "semantic"}

TopParses == data.top.kind # "text"

QueryGiven == ~data.query.isNone /\ data.query.chars # <<>>

\* C11 (as stated): a request with an invalid strategy is answered with
\* HTTP 400 'Invalid search type', and neither the embedding provider nor
\* the index is called.
C11_AsStated ==
    InvalidStrategy
        => /\ provider_calls = <<>>
           /\ index_calls = <<>>
           /\ Responded => (response.status = 400 /\ response.error = "Invalid search type")

\* C11 (amended): a request with an invalid strategy is always refused
\* without a call of the embedding provider or of the index and without a
\* retry; the answer is HTTP 400 'Invalid search type' when top parses as
\* an integer and the query is non-empty, HTTP 500 when top does not
\* parse, and HTTP 400 'Query is required' when top parses and the query
\* is missing or empty.
C11_InvalidStrategyRefused ==
    InvalidStrategy
        => /\ provider_calls = <<>>
           /\ index_calls = <<>>
           /\ hpc # "searching"
           /\ spc = "idle"
           /\ Responded =>
                 /\ response.results = <<>>
                 /\ response.status =
                       IF TopParses THEN 400 ELSE 500
                 /\ (TopParses /\ QueryGiven) => response.error = "Invalid search type"
                 /\ (TopParses /\ ~QueryGiven) => response.error = "Query is required"

C11_Witness ==
    /\ Responded
    /\ data.has_body
    /\ data.search_type = Pass("fuzzy")
    /\ data.query = Str(<<"a", "i">>)
    /\ data.top = TopMissing
    /\ response.status = 400
    /\ response.error = "Invalid search type"
    /\ index_calls = <<>>

\* C18: a failure of the index search call leaves the search method as an
\* error, and the handler answers it with an error response (status 500
\* carrying the error), never with the success response of a search that
\* found nothing (status 200, count 0).
C18_FailureNotMasked ==
    /\ (spc = "raised" <=> index_reply.raises # "")
    /\ (spc = "returned" => index_reply.raises = "")
    /\ (Responded /\ index_calls # <<>>)
          => IF index_reply.raises # ""
             THEN /\ response.status = 500
                  /\ response.error = index_reply.raises
             ELSE /\ response.status = 200
                  /\ response.error = ""
                  /\ response.count = Len(index_reply.docs)

C18_Witness ==
    /\ Responded
    /\ index_reply.raises = "HttpResponseError"
    /\ spc = "raised"
    /\ response.status = 500
    /\ response.error = "HttpResponseError"

\* C19 (as stated): every request that reaches the index has a positive
\* result limit and a positive vector k.
C19_PositiveTop ==
    \A i \in 1..Len(index_calls) :
        /\ index_calls[i].top > 0
        /\ \A j \in 1..Len(index_calls[i].vector_queries) :
              index_calls[i].vector_queries[j].k > 0

\* The embedding provider was called and did not deliver an embedding.
ProviderFailed == provider_calls # <<>> /\ epc = "returned" /\ ~ProviderSucceeded(provider_reply)

\* C20: a search makes at most one call of the embedding provider and then
\* exactly one call of the index; when the provider fails, the index is
\* still queried, with the all-zero vector, and what the index returns is
\* answered as an ordinary success whose fields depend only on the request
\* and on the index's reply.
C20_DegradedSilently ==
    /\ Len(provider_calls) <= 1
    /\ Len(index_calls) <= 1
    /\ index_calls # <<>> => epc = "returned"
    /\ spc \in {"searching", "returned", "raised"} => Len(index_calls) = 1
    /\ (ProviderFailed /\ index_calls # <<>>)
          => IsZeroVector(index_calls[1].vector_queries[1].vector)
    /\ (ProviderFailed /\ Responded /\ index_reply.raises = "")
          => /\ response.status = 200
             /\ response.error = ""
             /\ response.count = Len(index_reply.docs)
             /\ Len(response.results) = Len(index_reply.docs)
             /\ \A i \in 1..Len(response.results) :
                   response.results[i].id = index_reply.docs[i].id
             /\ response.query = data.query.chars
             /\ response.search_type =
                   (IF data.search_type.given THEN data.search_type.val ELSE "vector")

C20_Witness ==
    /\ Responded
    /\ provider_reply = Raises("RateLimitError")
    /\ Len(provider_calls) = 1
    /\ Len(index_calls) = 1
    /\ IsZeroVector(index_calls[1].vector_queries[1].vector)
    /\ response.status = 200
    /\ response.count = 2

(***************************************************************************)
(* Batch upload                                                            *)
(***************************************************************************)

\* ceil(n/100)
CeilHundredth(n) == (n + 99) \div 100

\* The documents of the j-th index_documents call, in the order submitted.
Submitted(j) ==
    [k \in 1..Len(upload_calls[j].actions) |-> upload_calls[j].actions[k].document]

RECURSIVE SubmittedUpTo(_)
SubmittedUpTo(j) == IF j = 0 THEN <<>> ELSE SubmittedUpTo(j - 1) \o Submitted(j)

UploadDone == upc = "done"

\* C12: ingesting n documents submits exactly ceil(n/100) batches; every
\* batch but the last has 100 documents, the last has n - 100*(ceil(n/100)-1);
\* the batch with 0-based number b holds the documents at the input positions
\* 100b .. min(100b+99, n-1) in input order, so the batches put end to end
\* are the input and every document is in exactly one batch.
C12_Partition ==
    LET n == Len(documents)
        batches == CeilHundredth(n)
    IN  /\ Len(upload_calls) <= batches
        /\ UploadDone => Len(upload_calls) = batches
        /\ \A j \in 1..Len(upload_calls) :
              /\ Len(Submitted(j)) = IF j < batches THEN 100 ELSE n - 100 * (batches - 1)
              /\ \A k \in 1..Len(Submitted(j)) :
                    Submitted(j)[k] = documents[100 * (j - 1) + k]
        /\ UploadDone => SubmittedUpTo(Len(upload_calls)) = documents

C12_Witness ==
    /\ UploadDone
    /\ Len(documents) = 250
    /\ [j \in 1..Len(upload_calls) |-> Len(Submitted(j))] = <<100, 100, 50>>

\* The j-th submission raised.
SubmissionRaised(j) == j <= Len(upload_replies) /\ upload_replies[j].raises # ""

\* The calls that submitted the batch with 0-based number b.
CallsOfBatch(b) == {k \in 1..Len(upload_calls) : upload_calls[k].i = 100 * b}

\* C13: fail-forward. For every batch whose submission raises, the failed
\* batch is submitted only that once, every batch after it is submitted
\* exactly once by the time the run is over, and the run is never ended by
\* the exception: until the run is over it always has a next step.
C13_FailForward ==
    /\ upc # "raised"
    /\ UploadDone \/ ENABLED NextUpload
    /\ \A j \in 1..Len(upload_calls) :
          SubmissionRaised(j) =>
              /\ Cardinality(CallsOfBatch(j - 1)) = 1
              /\ UploadDone =>
                    \A b \in j..(CeilHundredth(Len(documents)) - 1) :
                        Cardinality(CallsOfBatch(b)) = 1

C13_Witness ==
    /\ UploadDone
    /\ Len(upload_calls) = 3
    /\ SubmissionRaised(1) /\ SubmissionRaised(2)
    /\ ~SubmissionRaised(3)
    /\ Len(Submitted(3)) = 50

\* A printed line as the reader of the output sees it.
Printed(kind, b, ok, n, k, e) ==
    [kind |-> kind, batch |-> b, succeeded |-> ok, attempted |-> n, key |-> k, error |-> e]

Absent == 0 - 1

\* The batch-level lines printed for the j-th batch.
BatchLines(j) ==
    {l \in 1..Len(upload_log) :
        /\ upload_log[l].kind \in {"summary", "no_results", "batch_error"}
        /\ upload_log[l].batch = j}

SucceededReported(j) ==
    Cardinality({k \in 1..Len(upload_replies[j].results) :
                    upload_replies[j].results[k].succeeded})

ExpectedLines(j) ==
    LET rs == upload_replies[j].results
        failed == SelectSeq(rs, LAMBDA r : ~r.succeeded)
    IN  IF SubmissionRaised(j)
        THEN <<Printed("batch_error", j, Absent, Absent, 0, upload_replies[j].raises)>>
        ELSE IF rs = <<>>
        THEN <<Printed("no_results", j, Absent, Absent, 0, "")>>
        ELSE <<Printed("summary", j, SucceededReported(j), Len(Submitted(j)), 0, "")>>
                 \o [k \in 1..Len(failed) |->
                        Printed("document_error", 0, Absent, Absent,
                                failed[k].key, failed[k].error_message)]

RECURSIVE ExpectedUpTo(_)
ExpectedUpTo(j) == IF j = 0 THEN <<>> ELSE ExpectedUpTo(j - 1) \o ExpectedLines(j)

EverySubmissionSucceeded ==
    /\ Len(upload_replies) = Len(upload_calls)
    /\ \A j \in 1..Len(upload_replies) :
          /\ ~SubmissionRaised(j)
          /\ Len(upload_replies[j].results) = Len(Submitted(j))
          /\ SucceededReported(j) = Len(Submitted(j))

IdsOf(list) == {list[j].id : j \in 1..Len(list)}

\* The document submitted last with the id.
MostRecent(list, id) ==
    list[CHOOSE j \in 1..Len(list) :
             list[j].id = id /\ \A k \in 1..Len(list) : list[k].id = id => k <= j]

\* C15: upsert. After an ingest call in which every submission succeeded,
\* a submission succeeding when it returns with every document reported as
\* succeeded, the index holds one record for every id it held before and
\* every id submitted and no other; the record of a submitted id is the
\* document submitted last with that id, also when the id occurs twice in
\* the call; the record of any other id is the one held before; and when
\* every submitted document was already held as it is, the index is what it
\* was. Any sequence of such calls follows call by call.
C15_Upsert ==
    (UploadDone /\ EverySubmissionSucceeded) =>
        \E prior \in PriorIndexes :
            /\ DOMAIN index = DOMAIN prior \cup IdsOf(documents)
            /\ \A id \in IdsOf(documents) : index[id] = MostRecent(documents, id)
            /\ \A id \in DOMAIN prior \ IdsOf(documents) : index[id] = prior[id]
            /\ (\A j \in 1..Len(documents) :
                   documents[j].id \in DOMAIN prior /\ prior[documents[j].id] = documents[j])
               => index = prior

C15_Witness ==
    /\ UploadDone
    /\ EverySubmissionSucceeded
    /\ Len(documents) = 100
    /\ documents[100] = [id |-> 1, content |-> 12]
    /\ DOMAIN index = 1..101
    /\ index[1] = [id |-> 1, content |-> 12]
    /\ index[2] = [id |-> 2, content |-> 2]
    /\ index[101] = [id |-> 101, content |-> 1]

\* C17: the batches are submitted strictly in increasing batch order, which
\* is the order of the input; a batch is submitted only when every earlier
\* submission has returned or raised, so at most one submission is open and
\* only while the run waits for it; and no batch is submitted twice.
C17_InOrder ==
    /\ \A j \in 1..Len(upload_calls) : upload_calls[j].i = 100 * (j - 1)
    /\ \A j, k \in 1..Len(upload_calls) :
          j < k => upload_calls[j].i < upload_calls[k].i
    /\ Len(upload_calls) - Len(upload_replies) = IF upc = "awaiting" THEN 1 ELSE 0

C17_Witness ==
    /\ upc = "awaiting"
    /\ Len(upload_calls) = 3
    /\ Len(upload_replies) = 2
    /\ SubmissionRaised(1)
    /\ Submitted(3)[1].id = 201

(***************************************************************************)
(* Batch embedding                                                         *)
(***************************************************************************)

ProcessDone == ppc = "done"

\* The delays of the run, as positions in its timeline.
Delays == {l \in 1..Len(timeline) : timeline[l].ev = "sleep"}

\* The number of items embedded before position l: an item is embedded
\* when its last embedding has been generated.
EmbeddedBefore(l) ==
    Cardinality({m \in 1..(l - 1) :
                    timeline[m].ev = "embed" /\ timeline[m].key = "content"})

\* Every delay lasts at least 0.5 s and lies between two items; no two
\* delays lie at the same point; and from one delay to the next exactly
\* 10 items are embedded.
DelaysWellPlaced ==
    /\ \A l \in Delays :
          /\ timeline[l].tenths >= 5
          /\ \A m \in 1..Len(timeline) :
                timeline[m].ev = "embed" =>
                    (m < l <=> timeline[m].i + 1 <= EmbeddedBefore(l))
    /\ \A l, m \in Delays :
          /\ EmbeddedBefore(l) = EmbeddedBefore(m) => l = m
          /\ (l < m /\ \A x \in Delays : ~(l < x /\ x < m)) =>
                EmbeddedBefore(m) - EmbeddedBefore(l) = 10

\* The multiples of 10 at which a delay lies.
DelayPoints == {EmbeddedBefore(l) : l \in Delays}

\* C16 as stated: for every k >= 1 with 10k <= n a delay of at least 0.5 s
\* lies after the 10k-th item and before any later item, no delay lies at
\* any other point, and 10 items lie between two consecutive delays.
C16_AsStated ==
    /\ DelaysWellPlaced
    /\ DelayPoints \subseteq {10 * k : k \in 1..(Len(pdocs) \div 10)}
    /\ ProcessDone => DelayPoints = {10 * k : k \in 1..(Len(pdocs) \div 10)}

\* C16: for every k >= 1 with 10k < n, that is, when an item follows the
\* 10k-th, a delay of at least 0.5 s lies after the 10k-th item has been
\* embedded and before any later item is embedded; no delay lies at any
\* other point, in particular none after the last item; and 10 items lie
\* between two consecutive delays.
C16_PacedBetweenItems ==
    LET points == {10 * k : k \in {j \in 1..Len(pdocs) : 10 * j < Len(pdocs)}}
    IN  /\ DelaysWellPlaced
        /\ DelayPoints \subseteq points
        /\ \A m \in 1..Len(timeline) :
              timeline[m].ev = "embed" =>
                  \A pt \in points :
                      timeline[m].i + 1 > pt => pt \in {EmbeddedBefore(l) : l \in {x \in Delays : x < m}}
        /\ ProcessDone => DelayPoints = points

C16_Witness ==
    /\ ProcessDone
    /\ Len(pdocs) = 20
    /\ DelayPoints = {10}
    /\ provider_mode = "down"
    /\ pdocs[20].contentVector = zero_vector

====
